---- MODULE Spec2Model ----
(***************************************************************************)
(* Model of src/src/models/dptnet.py: the dual-path transformer network    *)
(* (DPTNet) and its Separator.                                             *)
(*                                                                         *)
(* Tensors are modelled by their shapes (sequences of dimensions).  Where  *)
(* a property is about contents (the chunk / overlap-add round trip, the   *)
(* softmax normalisation group) a tensor is modelled by its entries.       *)
(* Python's // and % are floor division and floor modulus, as \div and %   *)
(* are here; a zero divisor raises ZeroDivisionError and is tested before  *)
(* every % below.  An optional argument is <<>> (None) or <<v>>.           *)
(***************************************************************************)
EXTENDS Integers, Sequences, FiniteSets

VARIABLES
    obj,    \* the module under construction / constructed (DPTNet or Separator)
    res,    \* the outcome of the last forward / extract_latent call on obj
    ola,    \* pad -> segment -> overlap-add -> un-pad on one row of entries
    msk     \* mask nonlinearity -> view on the entries of one batch element

vars == <<obj, res, ola, msk>>

(***************************************************************************)
(* Bounds of the model.                                                    *)
(***************************************************************************)
MaxLen == 7        \* waveform lengths T and frame counts T_bin are 0..MaxLen
MaxWin == 3        \* kernel_size, stride, chunk_size, hop_size are 1..MaxWin
MaxRow == 6        \* length of a row of entries in the round-trip runs

(***************************************************************************)
(* Defaults written in the signatures.                                     *)
(***************************************************************************)
DPTNetBottleneckDefault == 64
SeparatorBottleneckDefault == 32

Opt(S) == {<<>>} \cup {<<v>> : v \in S}

Max(a, b) == IF a >= b THEN a ELSE b

RECURSIVE Prod(_)
Prod(s) == IF s = <<>> THEN 1 ELSE s[1] * Prod(Tail(s))

(***************************************************************************)
(* torch.nn.functional.pad on the last axis, as used by both forward       *)
(* passes: (l, r) >= 0 adds l zeros in front and r behind; negative        *)
(* amounts remove that many entries.                                       *)
(***************************************************************************)
FPadShape(shape, l, r) ==
    [shape EXCEPT ![Len(shape)] = shape[Len(shape)] + l + r]

Zeros(n) == [i \in 1..n |-> 0]

FPadRow(row, l, r) ==
    LET cut == SubSeq(row, 1 + Max(-l, 0), Len(row) - Max(-r, 0))
    IN  Zeros(Max(l, 0)) \o cut \o Zeros(Max(r, 0))

(***************************************************************************)
(* Padding arithmetic.                                                     *)
(***************************************************************************)
\* DPTNet.extract_latent: padding = (stride - (T-kernel_size)%stride)%stride
TopPadding(T, kernel_size, stride) ==
    (stride - ((T - kernel_size) % stride)) % stride

SepPaddingNoOuterMod(T_bin, chunk_size, hop_size) ==
    hop_size - ((T_bin - chunk_size) % hop_size)

\* Separator.forward: padding = (hop_size-(T_bin-chunk_size)%hop_size)%hop_size
SepPadding(T_bin, chunk_size, hop_size) ==
    (hop_size - ((T_bin - chunk_size) % hop_size)) % hop_size

\* padding_left = padding//2
PaddingLeft(padding) == padding \div 2

\* padding_right = padding - padding_left
PaddingRight(padding) == padding - PaddingLeft(padding)

\* What a forward pass records about its padding (for the properties below).
NoPad ==
    [computed |-> FALSE, length |-> 0, window |-> 0, step |-> 0, padding |-> 0,
     left |-> 0, right |-> 0, padded |-> 0,
     undone |-> FALSE, cut_left |-> 0, cut_right |-> 0, before_cut |-> 0,
     restored |-> 0]

PadRec(length, window, step, padding) ==
    [NoPad EXCEPT !.computed = TRUE, !.length = length, !.window = window,
                  !.step = step, !.padding = padding,
                  !.left = PaddingLeft(padding),
                  !.right = PaddingRight(padding),
                  !.padded = length + PaddingLeft(padding) + PaddingRight(padding)]

\* The un-padding call F.pad(x, (l, r)) with l, r <= 0 on a tensor of time
\* length n: -l entries are removed from the front and -r from the back.
Unpadded(pad, n, l, r) ==
    [pad EXCEPT !.undone = TRUE, !.cut_left = -l, !.cut_right = -r,
                !.before_cut = n,
                !.restored = FPadShape(<<n>>, l, r)[1]]

(***************************************************************************)
(* Modules imported from elsewhere in the repository (models.dprnn_tasnet, *)
(* models.dptransformer, models.gtu, utils.utils_tasnet).  Their code is   *)
(* not part of dptnet.py; they are modelled from the specification.        *)
(***************************************************************************)
\* num_chunks = ceil((T - K)/H) + 1, for T padded so that H divides T - K.
NumChunks(T, chunk_size, hop_size) ==
    (-((-(T - chunk_size)) \div hop_size)) + 1

\* Segment1d(chunk_size, hop_size): (B, C, T) -> (B, C, chunk_size, num_chunks),
\* chunk i being the slice of length chunk_size at offset i*hop_size.  A
\* sequence shorter than one chunk has no whole chunk to take: the call fails.
Segment1dShape(shape, chunk_size, hop_size) ==
    IF shape[3] < chunk_size
    THEN [ok |-> FALSE, shape |-> <<>>]
    ELSE [ok |-> TRUE,
          shape |-> <<shape[1], shape[2], chunk_size,
                      NumChunks(shape[3], chunk_size, hop_size)>>]

\* OverlapAdd1d(chunk_size, hop_size): (B, C, chunk_size, num_chunks) -> (B, C, T)
\* with T = (num_chunks - 1) * hop_size + chunk_size.
OverlapAdd1dShape(shape, chunk_size, hop_size) ==
    <<shape[1], shape[2], (shape[4] - 1) * hop_size + chunk_size>>

\* DualPathTransformer: (B, C, K, S) -> (B, C, K, S).
DualPathTransformerShape(shape) == shape

\* GTU1d(in_channels, out_channels): (B, C, T) -> (B, out_channels, T).
GTU1dShape(shape, out_channels) == <<shape[1], out_channels, shape[3]>>

\* Encoder of choose_bases(n_bases, kernel_size, stride): (B, 1, T) ->
\* (B, n_bases, T') with T' = floor((T - kernel_size)/stride) + 1.  It reads one
\* input channel and needs at least one whole window.
EncoderShape(shape, n_bases, kernel_size, stride) ==
    IF shape[2] # 1 \/ shape[3] < kernel_size
    THEN [ok |-> FALSE, shape |-> <<>>]
    ELSE [ok |-> TRUE,
          shape |-> <<shape[1], n_bases,
                      ((shape[3] - kernel_size) \div stride) + 1>>]

\* Decoder of choose_bases: (B', n_bases, T') -> (B', 1, T_out), the synthesis
\* paired with the encoder: T_out = (T' - 1) * stride + kernel_size.
DecoderShape(shape, kernel_size, stride) ==
    <<shape[1], 1, (shape[3] - 1) * stride + kernel_size>>

(***************************************************************************)
(* Tensor operations of torch used by dptnet.py, on shapes.                *)
(***************************************************************************)
\* nn.Conv1d(num_features, bottleneck_channels, kernel_size=1, stride=1): the
\* input must have num_features channels and at least one frame (an input
\* shorter than the kernel raises RuntimeError).
BottleneckConv1dShape(shape, num_features, bottleneck_channels) ==
    IF shape[2] # num_features \/ shape[3] < 1
    THEN [ok |-> FALSE, shape |-> <<>>]
    ELSE [ok |-> TRUE, shape |-> <<shape[1], bottleneck_channels, shape[3]>>]

\* x.view(*target): defined when the element counts agree.
ViewShape(shape, target) ==
    IF Prod(shape) = Prod(target)
    THEN [ok |-> TRUE, shape |-> target]
    ELSE [ok |-> FALSE, shape |-> <<>>]

\* x.view(d1, d2, -1): the last dimension is inferred.
ViewInferLast(shape, d1, d2) ==
    IF d1 * d2 > 0 /\ Prod(shape) % (d1 * d2) = 0
    THEN [ok |-> TRUE, shape |-> <<d1, d2, Prod(shape) \div (d1 * d2)>>]
    ELSE [ok |-> FALSE, shape |-> <<>>]

\* w.unsqueeze(dim=1) * mask, (B, 1, N, T') * (B, n_sources, N, T').
BroadcastMulShape(w, mask) ==
    IF w[1] = mask[1] /\ w[2] = mask[3] /\ w[3] = mask[4]
    THEN [ok |-> TRUE, shape |-> mask]
    ELSE [ok |-> FALSE, shape |-> <<>>]

(***************************************************************************)
(* Separator.__init__                                                      *)
(***************************************************************************)
MaskNonlinearNames == {"relu", "sigmoid", "softmax"}

MaskNonlinearAny(name) == TRUE

\* if mask_nonlinear == 'relu' ... elif 'sigmoid' ... elif 'softmax' ... else raise
MaskNonlinearSupported(name) == name \in MaskNonlinearNames

\* if hop_size is None: hop_size = chunk_size//2
ResolveHopSize(chunk_size, hop_size) ==
    IF hop_size = <<>> THEN chunk_size \div 2 ELSE hop_size[1]

Geometry(chunk_size, hop_size) ==
    [chunk_size |-> chunk_size, hop_size |-> hop_size]

\* self.segment1d = Segment1d(chunk_size, hop_size)
Segment1dInit(chunk_size, hop_size) == Geometry(chunk_size, hop_size)

OverlapAdd1dInitNoOverlap(chunk_size, hop_size) ==
    Geometry(chunk_size, chunk_size)

\* self.overlap_add1d = OverlapAdd1d(chunk_size, hop_size)
OverlapAdd1dInit(chunk_size, hop_size) == Geometry(chunk_size, hop_size)

NoSep ==
    [status |-> "none", num_features |-> 0, bottleneck_channels |-> 0,
     n_sources |-> 0, chunk_size |-> 0, hop_size |-> 0,
     segment1d |-> Geometry(0, 0), overlap_add1d |-> Geometry(0, 0),
     mask_nonlinear |-> "", modules |-> <<>>]

SeparatorInit(num_features, bottleneck_channels, chunk_size, hop_size, mask_nonlinear, n_sources) ==
    IF ~MaskNonlinearSupported(mask_nonlinear)
    THEN [NoSep EXCEPT !.status = "ValueError"]
    ELSE [status |-> "ok", num_features |-> num_features,
          bottleneck_channels |-> bottleneck_channels,
          n_sources |-> n_sources, chunk_size |-> chunk_size,
          hop_size |-> ResolveHopSize(chunk_size, hop_size),
          segment1d |->
              Segment1dInit(chunk_size, ResolveHopSize(chunk_size, hop_size)),
          overlap_add1d |->
              OverlapAdd1dInit(chunk_size, ResolveHopSize(chunk_size, hop_size)),
          mask_nonlinear |-> mask_nonlinear,
          modules |-> <<"bottleneck_conv1d", "segment1d", "norm2d",
                        "dptransformer", "overlap_add1d", "gtu",
                        "mask_nonlinear">>]

(***************************************************************************)
(* Separator.forward on an input of shape (batch_size, num_features, T_bin)*)
(* The result names the steps run, in order, and the output shape.         *)
(***************************************************************************)
SepOut(status, steps, shape, pad) ==
    [status |-> status, steps |-> steps, shape |-> shape, pad |-> pad]

SeparatorForward(sep, shape) ==
    LET batch_size == shape[1]
        T_bin == shape[3]
        chunk_size == sep.chunk_size
        hop_size == sep.hop_size
    IN
    IF hop_size = 0 THEN SepOut("ZeroDivisionError", <<>>, <<>>, NoPad)
    ELSE
    LET pad == PadRec(T_bin, chunk_size, hop_size,
                      SepPadding(T_bin, chunk_size, hop_size))
        x1 == BottleneckConv1dShape(shape, sep.num_features,
                                    sep.bottleneck_channels)
    IN
    IF ~x1.ok
    THEN SepOut("RuntimeError", <<"bottleneck_conv1d">>, <<>>, pad)
    ELSE
    LET x2 == FPadShape(x1.shape, pad.left, pad.right)
        x3 == Segment1dShape(x2, sep.segment1d.chunk_size,
                             sep.segment1d.hop_size)
    IN
    IF ~x3.ok
    THEN SepOut("RuntimeError", <<"bottleneck_conv1d", "pad", "segment1d">>,
                <<>>, pad)
    ELSE
    LET x4 == DualPathTransformerShape(x3.shape)
        x5 == OverlapAdd1dShape(x4, sep.overlap_add1d.chunk_size,
                                sep.overlap_add1d.hop_size)
        x6 == FPadShape(x5, -pad.left, -pad.right)
        x7 == GTU1dShape(x6, sep.n_sources * sep.num_features)
        x8 == x7
        output == ViewShape(x8, <<batch_size, sep.n_sources, sep.num_features,
                                  T_bin>>)
        steps == <<"bottleneck_conv1d", "pad", "segment1d", "dptransformer",
                   "overlap_add1d", "unpad", "gtu", "mask_nonlinear", "view">>
    IN
    IF ~output.ok
    THEN SepOut("RuntimeError", steps, <<>>, Unpadded(pad, x5[3], -pad.left, -pad.right))
    ELSE SepOut("ok", steps, output.shape, Unpadded(pad, x5[3], -pad.left, -pad.right))

(***************************************************************************)
(* DPTNet.__init__                                                         *)
(***************************************************************************)
\* if stride is None: stride = kernel_size//2
ResolveStride(kernel_size, stride) ==
    IF stride = <<>> THEN kernel_size \div 2 ELSE stride[1]

NoNet ==
    [n_bases |-> 0, kernel_size |-> 0, stride |-> 0, n_sources |-> 0]

NoArgs == [kind |-> "none"]

Built(kind, status, args, net, sep) ==
    [kind |-> kind, status |-> status, args |-> args, net |-> net, sep |-> sep]

\* assert n_bases%sep_num_heads == 0
HeadsCheck(n_bases, sep_num_heads) == n_bases % sep_num_heads = 0

\* assert kernel_size%stride == 0
StrideCheck(kernel_size, stride) == kernel_size % stride = 0

\* Lines 33-34: kwargs['enc_nonlinear'] is read when the encoder is trainable
\* and the decoder is not its pseudo-inverse; a missing keyword is a KeyError.
NeedsEncNonlinear(enc_bases, dec_bases) ==
    enc_bases = <<"trainable">> /\ dec_bases # <<"pinv">>

FourierBases == {<<"Fourier">>, <<"trainableFourier">>}

\* Lines 38-39: kwargs['window_fn'] is read when either basis is a Fourier one.
NeedsWindowFn(enc_bases, dec_bases) ==
    enc_bases \in FourierBases \/ dec_bases \in FourierBases

KwargsCheck(enc_bases, dec_bases, kwargs) ==
    /\ NeedsEncNonlinear(enc_bases, dec_bases) => "enc_nonlinear" \in kwargs
    /\ NeedsWindowFn(enc_bases, dec_bases) => "window_fn" \in kwargs

DPTNetInit(a) ==
    LET stride == ResolveStride(a.kernel_size, a.stride)
        sep_hop_size == <<ResolveHopSize(a.sep_chunk_size, a.sep_hop_size)>>
    IN
    IF stride = 0
    THEN Built("DPTNet", "ZeroDivisionError", a, NoNet, NoSep)
    ELSE IF ~StrideCheck(a.kernel_size, stride)
    THEN Built("DPTNet", "AssertionError", a, NoNet, NoSep)
    ELSE IF a.sep_num_heads = 0
    THEN Built("DPTNet", "ZeroDivisionError", a, NoNet, NoSep)
    ELSE IF ~HeadsCheck(a.n_bases, a.sep_num_heads)
    THEN Built("DPTNet", "AssertionError", a, NoNet, NoSep)
    ELSE IF ~KwargsCheck(a.enc_bases, a.dec_bases, a.kwargs)
    THEN Built("DPTNet", "KeyError", a, NoNet, NoSep)
    ELSE
    LET sep == SeparatorInit(a.n_bases, a.sep_bottleneck_channels,
                             a.sep_chunk_size, sep_hop_size, a.mask_nonlinear,
                             a.n_sources)
    IN
    IF sep.status # "ok"
    THEN Built("DPTNet", sep.status, a, NoNet, NoSep)
    ELSE Built("DPTNet", "ok", a,
               [n_bases |-> a.n_bases, kernel_size |-> a.kernel_size,
                stride |-> stride, n_sources |-> a.n_sources],
               sep)

\* A Separator constructed on its own, as in _test_separator.
StandaloneSeparatorInit(a) ==
    LET sep == SeparatorInit(a.num_features, a.bottleneck_channels,
                             a.chunk_size, a.hop_size, a.mask_nonlinear,
                             a.n_sources)
    IN  Built("Separator", sep.status, a, NoNet, sep)

(***************************************************************************)
(* DPTNet.extract_latent and DPTNet.forward on an input of shape           *)
(* (batch_size, C_in, T).                                                  *)
(***************************************************************************)
NoCall ==
    [api |-> "none", input |-> <<>>, status |-> "none", steps |-> <<>>,
     output |-> <<>>, latent |-> <<>>, top |-> NoPad,
     sep |-> SepOut("none", <<>>, <<>>, NoPad)]

ChannelCheckSkipped(C_in) == TRUE

\* assert C_in == 1
ChannelCheck(C_in) == C_in = 1

LatentAfterView(w_hat, viewed) == viewed

\* latent = w_hat, taken before w_hat is flattened for the decoder
LatentOf(w_hat, viewed) == w_hat

ExtractLatent(net, sep, input) ==
    LET batch_size == input[1]
        C_in == input[2]
        T == input[3]
        call == [NoCall EXCEPT !.api = "extract_latent", !.input = input]
    IN
    IF ~ChannelCheck(C_in)
    THEN [call EXCEPT !.status = "AssertionError"]
    ELSE
    LET pad == PadRec(T, net.kernel_size, net.stride,
                      TopPadding(T, net.kernel_size, net.stride))
        x0 == FPadShape(input, pad.left, pad.right)
        w == EncoderShape(x0, net.n_bases, net.kernel_size, net.stride)
    IN
    IF ~w.ok
    THEN [call EXCEPT !.status = "RuntimeError", !.steps = <<"pad", "encoder">>,
                      !.top = pad]
    ELSE
    LET mask == SeparatorForward(sep, w.shape)
    IN
    IF mask.status # "ok"
    THEN [call EXCEPT !.status = mask.status,
                      !.steps = <<"pad", "encoder", "separator">>,
                      !.top = pad, !.sep = mask]
    ELSE
    LET w_hat == BroadcastMulShape(w.shape, mask.shape)
        viewed == ViewInferLast(w_hat.shape, batch_size * net.n_sources,
                                net.n_bases)
    IN
    IF ~w_hat.ok \/ ~viewed.ok
    THEN [call EXCEPT !.status = "RuntimeError",
                      !.steps = <<"pad", "encoder", "separator", "mask_multiply">>,
                      !.top = pad, !.sep = mask]
    ELSE
    LET latent == LatentOf(w_hat.shape, viewed.shape)
        x_hat == DecoderShape(viewed.shape, net.kernel_size, net.stride)
        x_view == ViewInferLast(x_hat, batch_size, net.n_sources)
        output == FPadShape(x_view.shape, -pad.left, -pad.right)
    IN
    [call EXCEPT !.status = "ok",
                 !.steps = <<"pad", "encoder", "separator", "mask_multiply",
                             "decoder", "unpad">>,
                 !.output = output, !.latent = latent,
                 !.top = Unpadded(pad, x_view.shape[3], -pad.left,
                                 -pad.right), !.sep = mask]

\* forward: output, latent = self.extract_latent(input); return output
Forward(net, sep, input) ==
    [ExtractLatent(net, sep, input) EXCEPT !.api = "forward", !.latent = <<>>]

\* separator(input) on a Separator constructed on its own.
SeparatorCall(sep, input) ==
    LET out == SeparatorForward(sep, input)
    IN  [NoCall EXCEPT !.api = "separator", !.input = input,
                       !.status = out.status, !.output = out.shape,
                       !.sep = out]

(***************************************************************************)
(* The inputs of the model.                                                *)
(***************************************************************************)
\* The configuration and input of _test_dptnet.
TestDPTNetArgs ==
    [n_bases |-> 12, kernel_size |-> 8, stride |-> <<>>,
     enc_bases |-> <<"trainable">>, dec_bases |-> <<"trainable">>,
     kwargs |-> {"enc_nonlinear"},
     sep_bottleneck_channels |-> 32, sep_chunk_size |-> 10,
     sep_hop_size |-> <<>>, sep_num_heads |-> 4, mask_nonlinear |-> "relu",
     n_sources |-> 2]

TestDPTNetInput == <<2, 1, 64>>

\* enc_bases / dec_bases: <<>> is None, <<name>> a basis name.
BasesNames == Opt({"trainable", "Fourier", "trainableFourier", "pinv"})

KwargsSets == SUBSET {"enc_nonlinear", "window_fn"}

\* Every stride / chunk / head / nonlinearity combination with the bases of
\* _test_dptnet, and every bases / kwargs combination on two geometries.
DPTNetArgs ==
    [n_bases : {2, 3}, kernel_size : 1..MaxWin, stride : Opt(1..MaxWin),
     enc_bases : {<<"trainable">>}, dec_bases : {<<"trainable">>},
     kwargs : {{"enc_nonlinear"}},
     sep_bottleneck_channels : {DPTNetBottleneckDefault},
     sep_chunk_size : 1..MaxWin, sep_hop_size : Opt(1..MaxWin),
     sep_num_heads : {1, 2},
     mask_nonlinear : MaskNonlinearNames \cup {"tanh"},
     n_sources : {1, 2}]
    \cup
    [n_bases : {2}, kernel_size : {2}, stride : {<<>>, <<2>>},
     enc_bases : BasesNames, dec_bases : BasesNames, kwargs : KwargsSets,
     sep_bottleneck_channels : {DPTNetBottleneckDefault},
     sep_chunk_size : {2}, sep_hop_size : {<<>>},
     sep_num_heads : {1, 2},
     mask_nonlinear : {"relu", "tanh"},
     n_sources : {2}]
    \cup {TestDPTNetArgs}

SeparatorArgs ==
    [num_features : {1, 2}, bottleneck_channels : {SeparatorBottleneckDefault},
     chunk_size : 1..MaxWin, hop_size : Opt(1..MaxWin),
     mask_nonlinear : MaskNonlinearNames \cup {"tanh"},
     n_sources : {1, 2}]

Waveforms ==
    {<<b, c, t>> : b \in {1, 2}, c \in {1, 2}, t \in 0..MaxLen}
    \cup {TestDPTNetInput}

Encoded(num_features) == {<<b, num_features, t>> : b \in {1, 2}, t \in 0..MaxLen}

OlaIdle == [phase |-> "idle"]
MskIdle == [phase |-> "idle"]

(***************************************************************************)
(* Construction and calls.                                                 *)
(***************************************************************************)
Init ==
    /\ obj = Built("none", "none", NoArgs, NoNet, NoSep)
    /\ res = NoCall
    /\ ola = OlaIdle
    /\ msk = MskIdle

NewDPTNet ==
    /\ obj.kind = "none"
    /\ \E a \in DPTNetArgs : obj' = DPTNetInit(a)
    /\ UNCHANGED <<res, ola, msk>>

NewSeparator ==
    /\ obj.kind = "none"
    /\ \E a \in SeparatorArgs : obj' = StandaloneSeparatorInit(a)
    /\ UNCHANGED <<res, ola, msk>>

CallForward ==
    /\ obj.kind = "DPTNet" /\ obj.status = "ok"
    /\ res.api = "none"
    /\ \E input \in Waveforms : res' = Forward(obj.net, obj.sep, input)
    /\ UNCHANGED <<obj, ola, msk>>

CallExtractLatent ==
    /\ obj.kind = "DPTNet" /\ obj.status = "ok"
    /\ res.api = "none"
    /\ \E input \in Waveforms : res' = ExtractLatent(obj.net, obj.sep, input)
    /\ UNCHANGED <<obj, ola, msk>>

CallSeparator ==
    /\ obj.kind = "Separator" /\ obj.status = "ok"
    /\ res.api = "none"
    /\ \E input \in Encoded(obj.sep.num_features) :
           res' = SeparatorCall(obj.sep, input)
    /\ UNCHANGED <<obj, ola, msk>>

\* The call returns (or raises) to the caller; nothing of it is kept: the
\* modules hold no state besides their parameters.
Return ==
    /\ res.api # "none"
    /\ res' = NoCall
    /\ UNCHANGED <<obj, ola, msk>>

Next ==
    \/ NewDPTNet
    \/ NewSeparator
    \/ CallForward
    \/ CallExtractLatent
    \/ CallSeparator
    \/ Return

Spec == Init /\ [][Next]_vars

(***************************************************************************)
(* Properties of construction and of the forward passes (under Spec).      *)
(***************************************************************************)
IsNetCall == res.api \in {"forward", "extract_latent"}

NotDivisible(a, b) == b = 0 \/ a % b # 0

\* C1 (as claimed): every call of forward / extract_latent on a constructed
\* DPTNet with a one-channel input of length T >= kernel_size completes and
\* returns a waveform of shape (B, n_sources, T).
C1_ForwardKeepsLength ==
    (IsNetCall /\ res.input[2] = 1 /\ res.input[3] >= obj.net.kernel_size)
        => /\ res.status = "ok"
           /\ res.output = <<res.input[1], obj.net.n_sources, res.input[3]>>

\* C3: a DPTNet whose kernel_size is not divisible by its stride, or whose
\* n_bases is not divisible by sep_num_heads, or whose mask_nonlinear is not
\* relu / sigmoid / softmax, is never constructed: __init__ raises, no network
\* and no separator exist, and so no call is ever made on it.
C3_InvalidConfigurationFailsConstruction ==
    obj.kind = "DPTNet" =>
        LET a == obj.args
        IN  (\/ NotDivisible(a.kernel_size, ResolveStride(a.kernel_size, a.stride))
             \/ NotDivisible(a.n_bases, a.sep_num_heads)
             \/ a.mask_nonlinear \notin {"relu", "sigmoid", "softmax"})
                => /\ obj.status # "ok"
                   /\ obj.net = NoNet /\ obj.sep = NoSep
                   /\ res = NoCall

C3_Witness ==
    /\ obj.kind = "DPTNet"
    /\ obj.args.mask_nonlinear = "tanh"
    /\ ~NotDivisible(obj.args.kernel_size,
                     ResolveStride(obj.args.kernel_size, obj.args.stride))
    /\ ~NotDivisible(obj.args.n_bases, obj.args.sep_num_heads)
    /\ obj.status = "ValueError"

\* C4 (as claimed): every call of a constructed Separator on an input of shape
\* (B, num_features, T_bin), T_bin >= 0, returns a mask of shape
\* (B, n_sources, num_features, T_bin); the padded length holds at least one
\* whole chunk, overlap-add returns the padded length and un-padding restores
\* T_bin frames.
C4_SeparatorDefinedForEveryLength ==
    res.api = "separator"
        => /\ res.status = "ok"
           /\ res.output = <<res.input[1], obj.sep.n_sources,
                             obj.sep.num_features, res.input[3]>>
           /\ res.sep.pad.padded >= obj.sep.chunk_size
           /\ res.sep.pad.before_cut = res.sep.pad.padded
           /\ res.sep.pad.restored = res.input[3]

\* C5: when extract_latent returns, the latent has shape
\* (B, n_sources, n_bases, T') with T' = floor((T_padded - kernel_size)/stride)+1,
\* T_padded being the input length after the top-level padding; and on the
\* configuration and input of _test_dptnet it returns, with output shape
\* (2, 2, 64) and latent shape (2, 2, 12, 15).
C5_LatentShape ==
    /\ (res.api = "extract_latent" /\ res.status = "ok")
          => res.latent = <<res.input[1], obj.net.n_sources, obj.net.n_bases,
                            ((res.top.padded - obj.net.kernel_size)
                                 \div obj.net.stride) + 1>>
    /\ (res.api = "extract_latent" /\ obj.args = TestDPTNetArgs
            /\ res.input = TestDPTNetInput)
          => /\ res.status = "ok"
             /\ res.output = <<2, 2, 64>>
             /\ res.latent = <<2, 2, 12, 15>>

C5_Witness ==
    /\ res.api = "extract_latent"
    /\ obj.args = TestDPTNetArgs
    /\ res.input = TestDPTNetInput
    /\ res.status = "ok"
    /\ res.top.padded = 64

\* C6 (as claimed, the docstring of extract_latent): the latent returned by
\* extract_latent has shape (B, n_sources, n_bases, T') with
\* T' = (T - K)//S + 1, T being the length of the input as given.
C6_LatentFramesFromGivenLength ==
    (res.api = "extract_latent" /\ res.status = "ok")
        => res.latent = <<res.input[1], obj.net.n_sources, obj.net.n_bases,
                          ((res.input[3] - obj.net.kernel_size)
                               \div obj.net.stride) + 1>>

\* C8: forward and extract_latent reject an input whose channel dimension is
\* not 1: the call raises before padding, encoding, separation or decoding, and
\* returns neither an output nor a latent.
C8_RejectsOtherChannelCounts ==
    (IsNetCall /\ res.input[2] # 1)
        => /\ res.status = "AssertionError"
           /\ res.steps = <<>>
           /\ ~res.top.computed
           /\ res.sep.status = "none"
           /\ res.output = <<>> /\ res.latent = <<>>

C8_Witness ==
    /\ res.api = "forward"
    /\ res.input[2] = 2
    /\ res.input[3] >= obj.net.kernel_size
    /\ res.status = "AssertionError"

\* C9 (as claimed): a completed Separator.forward has run, in this order,
\* bottleneck projection, pad, chunk, normalization, transformer stack,
\* overlap-add, un-pad, gated unit, mask nonlinearity, reshape.
C9_SeparatorStepOrder ==
    res.sep.status = "ok"
        => res.sep.steps = <<"bottleneck_conv1d", "pad", "segment1d", "norm2d",
                             "dptransformer", "overlap_add1d", "unpad", "gtu",
                             "mask_nonlinear", "view">>

PaddingExact(pad) ==
    (pad.computed /\ pad.step >= 1)
        => /\ 0 <= pad.padding /\ pad.padding < pad.step
           /\ (pad.length + pad.padding - pad.window) % pad.step = 0
           /\ pad.left = pad.padding \div 2
           /\ pad.right = pad.padding - pad.left
           /\ pad.left + pad.right = pad.padding
           /\ pad.left <= pad.right /\ pad.right <= pad.left + 1
           /\ pad.padded = pad.length + pad.padding
           /\ pad.undone => /\ pad.cut_left = pad.left
                            /\ pad.cut_right = pad.right
                            /\ pad.restored = pad.before_cut - pad.padding

\* C10: at both levels (window = kernel_size, step = stride, length = T; and
\* window = chunk_size, step = hop_size, length = T_bin), for a step >= 1 the
\* padding p satisfies 0 <= p < step and step divides length + p - window; it is
\* split as left = p//2, right = p - left, so left <= right <= left + 1; and the
\* un-padding removes left entries from the front and right from the back.
C10_PaddingArithmetic ==
    /\ PaddingExact(res.top)
    /\ PaddingExact(res.sep.pad)

C10_Witness ==
    /\ res.top.undone /\ res.top.padding > 0 /\ res.top.right > res.top.left
    /\ res.sep.pad.undone /\ res.sep.pad.padding > 1
    /\ res.top.restored = res.input[3]

(***************************************************************************)
(* The chunking / overlap-add pair on the entries of one row               *)
(* (one batch element, one channel), as Separator.forward drives it:       *)
(* pad, segment1d, dptransformer, overlap_add1d, un-pad.  Segment1d,       *)
(* OverlapAdd1d and DualPathTransformer themselves are modelled from the   *)
(* specification; the transformer keeps the shape of the chunks and its    *)
(* entries depend on learned weights, so its output is one of a few        *)
(* representative rewritings of the chunks, the unchanged chunks included. *)
(***************************************************************************)
\* Chunk i (1-based) is the slice of length chunk_size at offset (i-1)*hop_size.
Segment1dRow(x, chunk_size, hop_size) ==
    [i \in 1..NumChunks(Len(x), chunk_size, hop_size) |->
        SubSeq(x, (i - 1) * hop_size + 1, (i - 1) * hop_size + chunk_size)]

RECURSIVE SumOver(_, _, _)
SumOver(chunks, idx, off) ==
    IF idx = {} THEN 0
    ELSE LET i == CHOOSE j \in idx : TRUE
         IN  chunks[i][off[i]] + SumOver(chunks, idx \ {i}, off)

\* Position p (1-based) of the output accumulates the entries of every chunk
\* covering it; the sum is divided by the number of those chunks.  An entry is
\* kept as the pair (sum, count), its value being sum / count.
OverlapAdd1dRow(chunks, chunk_size, hop_size) ==
    LET n == Len(chunks)
        T == (n - 1) * hop_size + chunk_size
        covering(p) == {i \in 1..n : /\ (i - 1) * hop_size + 1 <= p
                                     /\ p <= (i - 1) * hop_size + chunk_size}
    IN  [p \in 1..T |->
            [sum |-> SumOver(chunks, covering(p),
                             [i \in 1..n |-> p - (i - 1) * hop_size]),
             count |-> Cardinality(covering(p))]]

\* The entry-wise rewritings a shape-preserving transformer stack is
\* represented by: entries unchanged, the two values exchanged, or every entry
\* sent to the same value.
TransformerKinds == {"same", "exchanged", "constant"}

TransformEntry(kind, v) ==
    IF kind = "same" THEN v
    ELSE IF kind = "exchanged" THEN IF v = 0 THEN 0 ELSE 3 - v
    ELSE 1

DualPathTransformerRow(kind, chunks) ==
    [i \in 1..Len(chunks) |->
        [j \in 1..Len(chunks[i]) |-> TransformEntry(kind, chunks[i][j])]]

OlaState(phase, sep, row, pad, x, chunks, z, y, out) ==
    [phase |-> phase, sep |-> sep, row |-> row, pad |-> pad, x |-> x,
     chunks |-> chunks, z |-> z, y |-> y, out |-> out]

\* The rows leaving bottleneck_conv1d, which needs at least one frame.
Rows == UNION {[1..n -> {1, 2}] : n \in 1..MaxRow}

InitOla ==
    /\ obj = Built("none", "none", NoArgs, NoNet, NoSep)
    /\ res = NoCall
    /\ msk = MskIdle
    /\ \E chunk_size \in 1..MaxWin, hop_size \in Opt(1..MaxWin), row \in Rows :
           ola = OlaState("input",
                          SeparatorInit(1, SeparatorBottleneckDefault,
                                        chunk_size, hop_size, "relu", 1),
                          row, NoPad, <<>>, <<>>, <<>>, <<>>, <<>>)

\* padding = ...; x = F.pad(x, (padding_left, padding_right))
OlaPad ==
    /\ ola.phase = "input"
    /\ IF ola.sep.hop_size = 0
       THEN ola' = [ola EXCEPT !.phase = "ZeroDivisionError"]
       ELSE LET pad == PadRec(Len(ola.row), ola.sep.chunk_size,
                              ola.sep.hop_size,
                              SepPadding(Len(ola.row), ola.sep.chunk_size,
                                         ola.sep.hop_size))
            IN  ola' = [ola EXCEPT !.phase = "padded", !.pad = pad,
                                   !.x = FPadRow(ola.row, pad.left, pad.right)]
    /\ UNCHANGED <<obj, res, msk>>

\* x = self.segment1d(x)
OlaSegment ==
    /\ ola.phase = "padded"
    /\ IF Len(ola.x) < ola.sep.segment1d.chunk_size
       THEN ola' = [ola EXCEPT !.phase = "RuntimeError"]
       ELSE ola' = [ola EXCEPT !.phase = "chunked",
                               !.chunks = Segment1dRow(ola.x,
                                              ola.sep.segment1d.chunk_size,
                                              ola.sep.segment1d.hop_size)]
    /\ UNCHANGED <<obj, res, msk>>

\* x = self.dptransformer(x)
OlaTransformer ==
    /\ ola.phase = "chunked"
    /\ \E kind \in TransformerKinds :
           ola' = [ola EXCEPT !.phase = "transformed",
                              !.z = DualPathTransformerRow(kind, ola.chunks)]
    /\ UNCHANGED <<obj, res, msk>>

\* x = self.overlap_add1d(x)
OlaOverlapAdd ==
    /\ ola.phase = "transformed"
    /\ ola' = [ola EXCEPT !.phase = "added",
                          !.y = OverlapAdd1dRow(ola.z,
                                    ola.sep.overlap_add1d.chunk_size,
                                    ola.sep.overlap_add1d.hop_size)]
    /\ UNCHANGED <<obj, res, msk>>

\* x = F.pad(x, (-padding_left, -padding_right))
OlaUnpad ==
    /\ ola.phase = "added"
    /\ Len(ola.y) >= ola.pad.padding
    /\ ola' = [ola EXCEPT !.phase = "unpadded",
                          !.out = FPadRow(ola.y, -ola.pad.left, -ola.pad.right)]
    /\ UNCHANGED <<obj, res, msk>>

NextOla ==
    \/ OlaPad
    \/ OlaSegment
    \/ OlaTransformer
    \/ OlaOverlapAdd
    \/ OlaUnpad

SpecOla == InitOla /\ [][NextOla]_vars

\* The overlap-added row equals the chunked row: same length, and at every
\* position sum / count is the entry that was chunked.
RoundTripExact ==
    /\ Len(ola.y) = Len(ola.x)
    /\ \A p \in 1..Len(ola.y) :
           /\ ola.y[p].count >= 1
           /\ ola.y[p].sum = ola.y[p].count * ola.x[p]

\* The pair has been applied back to back: chunking has been attempted and,
\* where it produced chunks, those very chunks were overlap-added.
PairApplied ==
    \/ ola.phase = "RuntimeError"
    \/ ola.phase = "added" /\ ola.z = ola.chunks

\* C7 (as claimed): for every padded row x whose length T has T - chunk_size
\* divisible by hop_size, chunking x and overlap-adding the chunks yields x,
\* element for element and with the same length.
C7_RoundTripWheneverDivisible ==
    (/\ PairApplied
     /\ (Len(ola.x) - ola.sep.segment1d.chunk_size)
            % ola.sep.segment1d.hop_size = 0)
        => (ola.phase = "added" /\ RoundTripExact)

\* C7 (amended): for every padded row x of length T >= chunk_size with
\* hop_size <= chunk_size and T - chunk_size divisible by hop_size, chunking x
\* and overlap-adding the chunks with the Separator's pair yields x, element
\* for element and with the same length.
C7_RoundTripWhenChunksCoverRow ==
    (/\ PairApplied
     /\ Len(ola.x) >= ola.sep.segment1d.chunk_size
     /\ ola.sep.segment1d.hop_size <= ola.sep.segment1d.chunk_size
     /\ (Len(ola.x) - ola.sep.segment1d.chunk_size)
            % ola.sep.segment1d.hop_size = 0)
        => (ola.phase = "added" /\ RoundTripExact)

C7_Witness ==
    /\ ola.phase = "added"
    /\ ola.z = ola.chunks
    /\ ola.sep.segment1d.hop_size < ola.sep.segment1d.chunk_size
    /\ Len(ola.chunks) >= 3
    /\ ola.pad.padding > 0
    /\ \E p \in 1..Len(ola.y) : ola.y[p].count >= 2 /\ ola.x[p] = 2
    /\ RoundTripExact

(***************************************************************************)
(* The mask nonlinearity and the final reshape of Separator.forward on the *)
(* entries of one batch element: x has n_sources*num_features channels and *)
(* T_bin frames, x[c][t] being an integer logit of at least MinLogit.      *)
(* Values are kept exactly, as fractions [num, den] of polynomials in the  *)
(* number e with integer coefficients: the sequence <<c0, c1, ..., cn>> is *)
(* c0 + c1*e + ... + cn*e^n.  exp(v) is e^v; a fraction with exp terms has *)
(* numerator and denominator both multiplied by e^(-MinLogit), which       *)
(* leaves its value unchanged and makes every exponent non-negative.  As e *)
(* is transcendental, two polynomials have the same value exactly when     *)
(* their coefficients agree.                                               *)
(***************************************************************************)
MaxLogit == 1

MinLogit == -MaxLogit

Coef(p, i) == IF i \in 1..Len(p) THEN p[i] ELSE 0

PolyAdd(p, q) == [i \in 1..Max(Len(p), Len(q)) |-> Coef(p, i) + Coef(q, i)]

RECURSIVE ConvSum(_, _, _, _)
ConvSum(p, q, k, i) ==
    IF i = 0 THEN 0
    ELSE Coef(p, i) * Coef(q, k - i + 1) + ConvSum(p, q, k, i - 1)

PolyMul(p, q) ==
    IF Len(p) = 0 \/ Len(q) = 0 THEN <<>>
    ELSE [k \in 1..(Len(p) + Len(q) - 1) |-> ConvSum(p, q, k, Len(p))]

PolyEq(p, q) ==
    \A i \in 1..Max(Len(p), Len(q)) : Coef(p, i) = Coef(q, i)

Rat(n, d) == [num |-> n, den |-> d]

RatAdd(a, b) ==
    Rat(PolyAdd(PolyMul(a.num, b.den), PolyMul(b.num, a.den)),
        PolyMul(a.den, b.den))

RatIsOne(a) == PolyEq(a.num, a.den)

\* exp(v) * e^(-MinLogit) = e^(v - MinLogit), a monomial.
ExpScaled(v) ==
    [i \in 1..(v - MinLogit + 1) |-> IF i = v - MinLogit + 1 THEN 1 ELSE 0]

\* sum over the channels 1..c of exp(x[c][t]) * e^(-MinLogit)
RECURSIVE SumExpScaled(_, _, _)
SumExpScaled(x, c, t) ==
    IF c = 0 THEN <<>>
    ELSE PolyAdd(ExpScaled(x[c][t]), SumExpScaled(x, c - 1, t))

\* nn.ReLU(): max(v, 0)
ReLU(x) ==
    [c \in 1..Len(x) |->
        [t \in 1..Len(x[c]) |-> Rat(<<Max(x[c][t], 0)>>, <<1>>)]]

\* nn.Sigmoid(): 1 / (1 + exp(-v)) = exp(v) / (exp(v) + 1)
Sigmoid(x) ==
    [c \in 1..Len(x) |->
        [t \in 1..Len(x[c]) |->
            Rat(ExpScaled(x[c][t]),
                PolyAdd(ExpScaled(x[c][t]), ExpScaled(0)))]]

\* nn.Softmax(dim=1) on (batch_size, channels, T_bin): each entry is divided by
\* the sum over the whole channel axis at its (batch, frame) position.
SoftmaxDim1(x) ==
    [c \in 1..Len(x) |->
        [t \in 1..Len(x[c]) |->
            Rat(ExpScaled(x[c][t]), SumExpScaled(x, Len(x), t))]]

\* The module chosen in Separator.__init__, applied as x = self.mask_nonlinear(x)
MaskNonlinear(name, x) ==
    CASE name = "relu" -> ReLU(x)
      [] name = "sigmoid" -> Sigmoid(x)
      [] name = "softmax" -> SoftmaxDim1(x)

\* output = x.view(batch_size, n_sources, num_features, T_bin): channel
\* (s-1)*num_features + f becomes entry (s, f).
ViewMask(x, n_sources, num_features) ==
    [s \in 1..n_sources |->
        [f \in 1..num_features |-> x[(s - 1) * num_features + f]]]

MskState(phase, sep, x, y, mask) ==
    [phase |-> phase, sep |-> sep, x |-> x, y |-> y, mask |-> mask]

GtuOutputs(channels, frames) ==
    [1..channels -> [1..frames -> MinLogit..MaxLogit]]

InitMsk ==
    /\ obj = Built("none", "none", NoArgs, NoNet, NoSep)
    /\ res = NoCall
    /\ ola = OlaIdle
    /\ \E n_sources \in {1, 2}, num_features \in {1, 2}, T_bin \in {1, 2},
          name \in MaskNonlinearNames :
         LET sep == SeparatorInit(num_features, SeparatorBottleneckDefault,
                                  1, <<1>>, name, n_sources)
         IN  \* the separator's forward reaches line 160 on this length
             /\ sep.status = "ok"
             /\ SeparatorForward(sep, <<1, num_features, T_bin>>).status = "ok"
             /\ \E x \in GtuOutputs(n_sources * num_features, T_bin) :
                    msk = MskState("gtu", sep, x, <<>>, <<>>)

\* x = self.mask_nonlinear(x)
MskNonlinear ==
    /\ msk.phase = "gtu"
    /\ msk' = [msk EXCEPT !.phase = "mask_nonlinear",
                          !.y = MaskNonlinear(msk.sep.mask_nonlinear, msk.x)]
    /\ UNCHANGED <<obj, res, ola>>

\* output = x.view(batch_size, n_sources, num_features, T_bin)
MskView ==
    /\ msk.phase = "mask_nonlinear"
    /\ msk' = [msk EXCEPT !.phase = "view",
                          !.mask = ViewMask(msk.y, msk.sep.n_sources,
                                            msk.sep.num_features)]
    /\ UNCHANGED <<obj, res, ola>>

NextMsk ==
    \/ MskNonlinear
    \/ MskView

SpecMsk == InitMsk /\ [][NextMsk]_vars

RECURSIVE SumOverSources(_, _, _, _)
SumOverSources(mask, s, f, t) ==
    IF s = 0 THEN Rat(<<0>>, <<1>>)
    ELSE RatAdd(mask[s][f][t], SumOverSources(mask, s - 1, f, t))

\* C2 (as claimed): with mask_nonlinear = 'softmax', in the returned mask the
\* n_sources values at every (basis, frame) position sum to 1.
C2_SoftmaxSumsToOneOverSources ==
    (msk.phase = "view" /\ msk.sep.mask_nonlinear = "softmax")
        => \A f \in 1..msk.sep.num_features :
             \A t \in 1..Len(msk.x[1]) :
               RatIsOne(SumOverSources(msk.mask, msk.sep.n_sources, f, t))

====
